---- MODULE Spec2Model ----
(***************************************************************************)
(* A model of src/mcmc.py: the expression tree of the Bayesian machine     *)
(* scientist (class Tree), its index of elementary trees, the three move   *)
(* kinds and the Metropolis-Hastings step that drives them.                *)
(*                                                                         *)
(* Nodes are identified by small integers (Python object identity); a      *)
(* fresh Node() takes the smallest identifier no live object holds.        *)
(* Floating point numbers are modelled by integers extended with +inf,     *)
(* -inf and nan; the external fitter and evaluator (scipy / sympy) are     *)
(* modelled by a nondeterministic fit outcome and a fixed misfit function. *)
(***************************************************************************)
EXTENDS Integers, Sequences, FiniteSets, TLC

\* ------------------------------------------------------------------ bounds
\* Tree.max_size as configured for the model (the code's default is 50).
MaxSize == 4
\* The pool of node identifiers: _add_et, which does not look at max_size,
\* adds at most two nodes to a tree that fits in it.
MaxNodes == MaxSize + 2
\* |E - get_energy()| is capped so that the state space stays finite.
MaxDrift == 2
\* The loop lengths a run of mcmc or trace_predict is started with.
MaxBurnin == 1
MaxThin == 2
MaxSamples == 2
\* The blocks a run of trace_predict is started with.
MaxBlocks == 1

\* --------------------------------------------------------------- numbers
PosInf == 1000000
NegInf == -1000000
NaN == 7777777
IsNum(a) == a \notin {PosInf, NegInf, NaN}

XAdd(a, b) ==
    IF a = NaN \/ b = NaN THEN NaN
    ELSE IF a = PosInf THEN (IF b = NegInf THEN NaN ELSE PosInf)
    ELSE IF a = NegInf THEN (IF b = PosInf THEN NaN ELSE NegInf)
    ELSE IF b = PosInf \/ b = NegInf THEN b
    ELSE a + b

XNeg(a) ==
    IF a = NaN THEN NaN
    ELSE IF a = PosInf THEN NegInf
    ELSE IF a = NegInf THEN PosInf
    ELSE 0 - a

XSub(a, b) == XAdd(a, XNeg(b))

\* The BIC temperature of the constructor and of the sampling steps, and
\* the one trace_predict warms the chain up with (1.e100).
ColdBT == 1
HotBT == 100000000

\* a / d for a positive finite d: d divides every finite a of the model, or
\* d is so large that the quotient is lost in any sum it enters.
XDiv(a, d) ==
    IF ~IsNum(a) THEN a
    ELSE IF d >= HotBT THEN 0
    ELSE a \div d

\* ------------------------------------------------------ the configuration
\* The operator catalog handed to the constructor, in iteration order.
OpSeq == <<"pow2", "fac", "+">>
Ops == {OpSeq[i] : i \in 1..Len(OpSeq)}
OPS(op) == IF op = "+" THEN 2 ELSE 1
variables == <<"x">>
parameters == <<"a">>
LeafSeq == variables \o parameters
LeafValues == {LeafSeq[i] : i \in 1..Len(LeafSeq)}
Params == {parameters[i] : i \in 1..Len(parameters)}
PT == 1
max_size == MaxSize

None == 0
\* None where a root replacement [op, [leaves]] is expected
NoRR == <<>>
NoValue == ""
NodeIds == 1..MaxNodes

Range(s) == {s[i] : i \in 1..Len(s)}

\* list(set([0] + ops.values())) and permutations(op_orders, 2)
op_orders == {0} \cup {OPS(op) : op \in Ops}
move_types == <<<<0, 1>>, <<0, 2>>, <<1, 0>>, <<1, 2>>, <<2, 0>>, <<2, 1>>>>

\* ------------------------------------------------ et_space and rr_space
\* Only the tuples that repeat one element.
Product_mut(s, k) ==
    IF k = 0 THEN << <<>> >>
    ELSE [i \in 1..Len(s) |-> [j \in 1..k |-> s[i]]]

RECURSIVE Product(_, _)
\* itertools.product(s, repeat=k): the k-tuples over s, last index fastest.
Product(s, k) ==
    IF k = 0 THEN << <<>> >>
    ELSE LET rest == Product(s, k - 1)
             F[i \in 0..Len(s)] ==
                 IF i = 0 THEN <<>>
                 ELSE F[i - 1] \o [j \in 1..Len(rest) |-> <<s[i]>> \o rest[j]]
         IN  F[Len(s)]

RECURSIVE EtSpaceUpTo(_, _)
EtSpaceUpTo(i, o) ==
    IF i = 0 THEN <<>>
    ELSE EtSpaceUpTo(i - 1, o) \o
         (IF OPS(OpSeq[i]) = o
          THEN LET vs == Product(LeafSeq, o)
               IN  [j \in 1..Len(vs) |-> <<OpSeq[i], vs[j]>>]
          ELSE <<>>)

build_et_space ==
    [o \in op_orders |->
        IF o = 0 THEN [i \in 1..Len(LeafSeq) |-> <<LeafSeq[i], <<>> >>]
        ELSE EtSpaceUpTo(Len(OpSeq), o)]

RECURSIVE RrSpaceUpTo(_)
RrSpaceUpTo(i) ==
    IF i = 0 THEN <<>>
    ELSE RrSpaceUpTo(i - 1) \o
         (IF OPS(OpSeq[i]) = 1 THEN << <<OpSeq[i], <<>> >> >>
          ELSE LET vs == Product(LeafSeq, OPS(OpSeq[i]) - 1)
               IN  [j \in 1..Len(vs) |-> <<OpSeq[i], vs[j]>>])

build_rr_space == RrSpaceUpTo(Len(OpSeq))

\* -------------------------------------------------------------- the state
VARIABLES
    root,        \* Tree.root
    value,       \* Node.value of every node
    offspring,   \* Node.offspring of every node
    parent,      \* Node.parent of every node (None at the root)
    nodes,       \* Tree.nodes, a list
    ets,         \* Tree.ets: order -> list of nodes
    size,        \* Tree.size
    nops,        \* Tree.nops
    par_values,  \* Tree.par_values
    sse, bic, E, \* Tree.sse, Tree.bic, Tree.E
    BT,          \* Tree.BT
    et_space, rr_space, num_rr,
    prior_par,   \* Tree.prior_par: a mapping whose keys are strings
    x_empty,     \* Tree.x.empty (and Tree.y.empty)
    keep_order,  \* whether the order of the lists is part of the state
    raised,      \* an exception left the last call
    last,        \* the last call: its name, inputs and result, and the
                 \* fitter calls the commit of an accepted step made
    pc,          \* where the running mcmc or trace_predict call stands
    run,         \* the arguments of that call
    ii, ss,      \* its loop variables i (or kk) and s
    steps,       \* the mcmc_step calls it has made
    nhot, ncold, \* those of the current block made at the warm and at the
                 \* sampling temperature
    trace,       \* the records written to the trace file
    ypred        \* the predictions made

treeVars == <<root, value, offspring, parent, nodes, ets, size, nops,
              par_values, sse, bic, E, BT>>
confVars == <<et_space, rr_space, num_rr, prior_par, x_empty, keep_order>>
runVars == <<pc, run, ii, ss, steps, nhot, ncold, trace, ypred>>
vars == <<treeVars, confVars, raised, last, runVars>>

\* The tree as one value: the operators below map a tree to a tree.
Tree ==
    [root |-> root, value |-> value, offspring |-> offspring,
     parent |-> parent, nodes |-> nodes, ets |-> ets, size |-> size,
     nops |-> nops, par_values |-> par_values, sse |-> sse, bic |-> bic,
     E |-> E, BT |-> BT, err |-> FALSE]

\* ------------------------------------------------------------ list helpers
IndexOf(s, x) ==
    CHOOSE i \in 1..Len(s) : s[i] = x /\ \A j \in 1..(i - 1) : s[j] # x

\* A remove() that removes nothing.
Remove_mut(s, x) == s

\* list.remove(x): the first occurrence goes.
Remove(s, x) ==
    IF x \in Range(s)
    THEN LET i == IndexOf(s, x)
         IN  SubSeq(s, 1, i - 1) \o SubSeq(s, i + 1, Len(s))
    ELSE s

\* The removals of a loop, none of them made.
RemoveAll_mut(s, xs) == s

RECURSIVE RemoveAll(_, _)
\* for o in xs: s.remove(o)
RemoveAll(s, xs) ==
    IF xs = <<>> THEN s ELSE RemoveAll(Remove(s, Head(xs)), Tail(xs))

\* --------------------------------------------------------- node identity
RECURSIVE Closure(_, _)
Closure(t, S) ==
    LET T == S \cup UNION {Range(t.offspring[n]) : n \in S}
               \cup ({t.parent[n] : n \in S} \ {None})
    IN  IF T = S THEN S ELSE Closure(t, T)

\* The node objects some reference still reaches.
InUse(t) ==
    Closure(t, ({t.root} \cup Range(t.nodes)
                \cup UNION {Range(t.ets[o]) : o \in op_orders}) \ {None})

RECURSIVE FreshIds(_, _)
FreshIds(free, k) ==
    IF k = 0 THEN <<>>
    ELSE LET m == CHOOSE x \in free : \A y \in free : x <= y
         IN  <<m>> \o FreshIds(free \ {m}, k - 1)

\* Node(v, parent=p, offspring=[]) for each v of vs: the new identifiers.
NewNodes(t, k) == FreshIds(NodeIds \ InUse(t), k)

\* The state is kept up to the identity of the node objects and, unless
\* keep_order is set, the order of the lists: no operation of Tree reads the
\* position of an element (it appends, removes, tests membership, takes the
\* length or draws uniformly), so renaming the objects and sorting the lists
\* gives an equivalent state.  Nodes are numbered in the order the printed
\* form visits them.
RECURSIVE Preorder(_, _)
Preorder(t, n) ==
    LET off == t.offspring[n]
        F[i \in 0..Len(off)] ==
            IF i = 0 THEN <<n>> ELSE F[i - 1] \o Preorder(t, off[i])
    IN  F[Len(off)]

\* The tree with the node order[i] named i.
Renamed(t, order) ==
    LET id(n) == IF n = None THEN None ELSE IndexOf(order, n)
        ids(s) == [i \in 1..Len(s) |-> id(s[i])]
        ren(s) == IF keep_order THEN ids(s)
                  ELSE SortSeq(ids(s), LAMBDA a, b : a < b)
    IN  [t EXCEPT
          !.root = id(@),
          !.value = [i \in NodeIds |->
                        IF i <= Len(order) THEN t.value[order[i]]
                        ELSE NoValue],
          !.offspring = [i \in NodeIds |->
                        IF i <= Len(order)
                        THEN [k \in 1..Len(t.offspring[order[i]]) |->
                                 id(t.offspring[order[i]][k])]
                        ELSE <<>>],
          !.parent = [i \in NodeIds |->
                        IF i <= Len(order) THEN id(t.parent[order[i]])
                        ELSE None],
          !.nodes = ren(@),
          !.ets = [o \in op_orders |-> ren(@[o])]]

\* The nodes of the tree in the order of the printed form, then the nodes
\* that only the lists still hold.
VisitOrder(t, pre) ==
    pre \o FreshIds(InUse(t) \ Range(pre),
                    Cardinality(InUse(t) \ Range(pre)))

Canonical(t) == Renamed(t, VisitOrder(t, Preorder(t, t.root)))

\* ------------------------------------------------------------ Node.pr
RECURSIVE pr(_, _)
pr(t, n) ==
    LET off == t.offspring[n]
        v == t.value[n]
    IN  IF off = <<>> THEN <<v>>
        ELSE IF Len(off) = 2
        THEN <<"(">> \o pr(t, off[1]) \o <<" ", v, " ">> \o pr(t, off[2])
                     \o <<")">>
        ELSE IF v = "pow2" THEN <<"(">> \o pr(t, off[1]) \o <<"**2)">>
        ELSE IF v = "pow3" THEN <<"(">> \o pr(t, off[1]) \o <<"**3)">>
        ELSE IF v = "fact" THEN <<"((">> \o pr(t, off[1]) \o <<")!)">>
        ELSE <<v, "(">> \o pr(t, off[1]) \o <<")">>

\* Tree.__repr__
Repr(t) == pr(t, t.root)

\* The nodes the printed form visits.
RECURSIVE Below(_, _)
Below(t, n) == {n} \cup UNION {Below(t, t.offspring[n][i]) :
                                 i \in 1..Len(t.offspring[n])}

\* The symbols of the printed expression (ex.atoms()).
Atoms(t) == {t.value[n] : n \in {m \in Below(t, t.root) : t.offspring[m] = <<>>}}

\* ------------------------------------------------- goodness of fit, energy
\* The outcomes of one call of the external fitter: it raises, or returns a
\* value for every parameter.
ParVals == {2}
NoFit == [ok |-> FALSE, res |-> [p \in Params |-> 1]]
FitOutcomes == {NoFit} \cup {[ok |-> TRUE, res |-> r] : r \in [Params -> ParVals]}

\* Without data the fitter is never called.
FitChoices == IF x_empty THEN {NoFit} ELSE FitOutcomes

\* numpy knows no function "fac": an expression that holds one cannot be
\* evaluated, neither by the fitter nor for the sum of squares.
Evaluable(t) == \A n \in Below(t, t.root) : t.value[n] # "fac"

\* The evaluator's answer for the data at hand: sum((y - f(x, par))**2).
Misfit(t, pv) ==
    LET below == Below(t, t.root)
        atoms == Atoms(t)
    IN  IF ~Evaluable(t) THEN PosInf
        ELSE 1 + Cardinality({n \in below : t.value[n] = "pow2"})
               + Cardinality({p \in Params \cap atoms : pv[p] # 2})
               + (IF atoms \cap Range(variables) = {} THEN 2 ELSE 0)

\* The values a fit without a parameter to fit leaves as they are.
NothingToFit_mut(pv) == pv

\* if len(parameters) == 0: for p in self.parameters: par_values[p] = 1.
NothingToFit(pv) == [p \in DOMAIN pv |-> 1]

\* The calls of curve_fit one get_sse(fit) makes: one when there are data,
\* a fit is asked for and a parameter appears in the expression.
FitterCalls(t, fit) ==
    IF ~x_empty /\ fit /\ Params \cap Atoms(t) # {} THEN 1 ELSE 0

\* Tree.get_sse(fit): the tree after the call; the call returns its sse.
get_sse(t, fit, fo) ==
    IF x_empty THEN [t EXCEPT !.sse = 0]
    ELSE LET pars == Params \cap Atoms(t)
             pv == IF ~fit THEN t.par_values
                   ELSE IF pars = {} THEN NothingToFit(t.par_values)
                   ELSE IF fo.ok /\ Evaluable(t)
                   THEN [p \in Params |-> IF p \in pars THEN fo.res[p] ELSE 1]
                   ELSE t.par_values
         IN  [t EXCEPT !.par_values = pv, !.sse = Misfit(t, pv)]

\* (k - n) * log(n) + n * (log(2 pi) + log(sse) + 1) for the data at hand.
BICf(k, s) == IF s = PosInf THEN PosInf ELSE 2 * (k + s)

\* The BIC of the tree t1 that get_sse left: k counts the parameters among
\* the leaves; reset keeps the value in t1.bic.
BicOf(t1, reset) ==
    LET k == 1 + Cardinality({t1.value[n] : n \in Range(t1.ets[0])}
                              \cap Params)
        b == BICf(k, t1.sse)
    IN  [t |-> IF reset THEN [t1 EXCEPT !.bic = b] ELSE t1, ret |-> b]

\* Tree.get_bic(reset, fit): the tree after the call and the value returned.
get_bic(t, reset, fit, fo) ==
    IF x_empty
    THEN [t |-> IF reset THEN [t EXCEPT !.bic = 0] ELSE t, ret |-> 0]
    ELSE BicOf(get_sse(t, fit, fo), reset)

\* The key 'Nopi_<op>' of prior_par, and the key '<op>'.
NopiKey(v) == [pre |-> "Nopi_", op |-> v]
BareKey(v) == [pre |-> "", op |-> v]

RECURSIVE PriorSum(_, _)
PriorSum(t, i) ==
    IF i = 0 THEN 0
    ELSE PriorSum(t, i - 1)
         + (IF NopiKey(OpSeq[i]) \in DOMAIN prior_par
            THEN (prior_par[NopiKey(OpSeq[i])] * t.nops[OpSeq[i]]) \div PT
            ELSE 0)

\* Tree.get_energy(bic=False, reset=False): the value returned.
get_energy(t) == XAdd(XDiv(t.bic, 2 * t.BT), PriorSum(t, Len(OpSeq)))

\* self.E = self.get_energy(bic=False, reset=False)
WithEnergy(t) == [t EXCEPT !.E = get_energy(t)]

\* sse = get_sse(); bic = get_bic(); E = get_energy()
update_gof_all(t, fo) ==
    WithEnergy(get_bic(get_sse(t, TRUE, fo), TRUE, FALSE, fo).t)

\* if update_gof: the goodness of fit of the moved tree t is computed anew.
MovedGof(t, update_gof, fo) ==
    IF update_gof THEN update_gof_all(t, fo) ELSE t

\* ------------------------------------------------------------- root moves
\* The old root is taken out of the bucket that holds it.
RootEts_mut(t, oldRoot, newRoot, lv, order) ==
    [o \in op_orders |->
        Remove(IF o = 0 THEN t.ets[o] \o lv ELSE t.ets[o], oldRoot)
        \o (IF o = order /\ t.offspring[oldRoot] = <<>>
            THEN <<newRoot>> ELSE <<>>)]

\* The ets of replace_root: the new leaves join ets[0], and the new root
\* joins the bucket of its order iff the old root was a leaf.
RootEts(t, oldRoot, newRoot, lv, order) ==
    [o \in op_orders |->
        (IF o = 0 THEN t.ets[o] \o lv ELSE t.ets[o])
        \o (IF o = order /\ t.offspring[oldRoot] = <<>>
            THEN <<newRoot>> ELSE <<>>)]

\* The tree with the root rr above the old root: ids are the node made for
\* the new root and those made for its leaves.
RootAbove(t, rr, ids, update_gof, fo) ==
         LET newRoot == ids[1]
             lv == Tail(ids)
             oldRoot == t.root
             order == 1 + Len(rr[2])
             t1 == [t EXCEPT
                 !.root = newRoot,
                 !.value = [n \in NodeIds |->
                     IF n = newRoot THEN rr[1]
                     ELSE IF n \in Range(lv) THEN rr[2][IndexOf(lv, n)]
                     ELSE @[n]],
                 !.offspring = [n \in NodeIds |->
                     IF n = newRoot THEN <<oldRoot>> \o lv
                     ELSE IF n \in Range(lv) THEN <<>>
                     ELSE @[n]],
                 !.parent = [n \in NodeIds |->
                     IF n = newRoot THEN None
                     ELSE IF n = oldRoot \/ n \in Range(lv) THEN newRoot
                     ELSE @[n]],
                 !.nops = [@ EXCEPT ![rr[1]] = @ + 1],
                 !.nodes = @ \o <<newRoot>> \o lv,
                 !.size = @ + 1 + Len(lv),
                 !.ets = RootEts(t, oldRoot, newRoot, lv, order)]
         IN  [t |-> MovedGof(t1, update_gof, fo), ret |-> newRoot]

\* Tree.replace_root(rr, update_gof): the tree after it and the new root.
replace_root(t, rr, update_gof, fo) ==
    IF t.size + OPS(rr[1]) > max_size THEN [t |-> t, ret |-> None]
    ELSE RootAbove(t, rr, NewNodes(t, 1 + Len(rr[2])), update_gof, fo)

\* A root is taken for prunable whatever hangs from it.
is_root_prunable_mut(t) == t.size >= 2

\* Tree.is_root_prunable()
is_root_prunable(t) ==
    IF t.size = 1 THEN FALSE
    ELSE IF t.size = 2 THEN TRUE
    ELSE \A i \in 2..Len(t.offspring[t.root]) :
             t.offspring[t.offspring[t.root][i]] = <<>>

\* The new root keeps the link to the root that was cut.
Detach_mut(par, n) == par

\* self.root.parent = None
Detach(par, n) == [par EXCEPT ![n] = None]

\* Tree.prune_root(update_gof): the tree after it and the rr returned.
prune_root(t, update_gof, fo) ==
    IF ~is_root_prunable(t) THEN [t |-> t, ret |-> NoRR]
    ELSE LET r == t.root
             off == t.offspring[r]
             rest == Tail(off)
             rr == <<t.value[r], [i \in 1..Len(rest) |-> t.value[rest[i]]]>>
             t1 == [t EXCEPT
                 !.nodes = RemoveAll(Remove(@, r), rest),
                 !.ets = [o \in op_orders |->
                     LET e1 == IF o = Len(off) THEN Remove(@[o], r) ELSE @[o]
                     IN  IF o = 0 THEN RemoveAll(e1, rest) ELSE e1],
                 !.nops = [@ EXCEPT ![t.value[r]] = @ - 1],
                 !.size = @ - 1 - Len(rest),
                 !.root = off[1],
                 !.parent = Detach(@, off[1]),
                 !.err = @ \/ r \notin Range(t.nodes)
                           \/ ~(Range(rest) \subseteq Range(t.nodes))
                           \/ ~(Range(rest) \subseteq Range(t.ets[0]))]
         IN  [t |-> MovedGof(t1, update_gof, fo), ret |-> rr]

\* ------------------------------------------------------- elementary trees
\* Tree._add_et(node, et=et, update_gof=False)
\* An et whose value is no operator (a leaf put on a leaf) fails at
\* nops[node.value] += 1, after node.value was assigned.
add_et(t, node, et) ==
    IF t.offspring[node] # <<>> THEN [t EXCEPT !.err = TRUE]
    ELSE IF et[1] \notin Ops
    THEN [t EXCEPT !.value = [@ EXCEPT ![node] = et[1]], !.err = TRUE]
    ELSE LET et_order == Len(et[2])
             kids == NewNodes(t, et_order)
             p == t.parent[node]
         IN  [t EXCEPT
                 !.value = [n \in NodeIds |->
                     IF n = node THEN et[1]
                     ELSE IF n \in Range(kids) THEN et[2][IndexOf(kids, n)]
                     ELSE @[n]],
                 !.nops = [@ EXCEPT ![et[1]] = @ + 1],
                 !.offspring = [n \in NodeIds |->
                     IF n = node THEN kids
                     ELSE IF n \in Range(kids) THEN <<>>
                     ELSE @[n]],
                 !.parent = [n \in NodeIds |->
                     IF n \in Range(kids) THEN node ELSE @[n]],
                 !.ets = [o \in op_orders |->
                     LET e1 == IF o = et_order THEN @[o] \o <<node>> ELSE @[o]
                         e2 == IF p # None /\ o = Len(t.offspring[p])
                               THEN Remove(e1, p) ELSE e1
                     IN  IF o = 0 THEN Remove(e2, node) \o kids ELSE e2],
                 !.nodes = @ \o kids,
                 !.size = @ + et_order,
                 !.err = @ \/ node \notin Range(t.ets[0])]

\* The parent is never found to be an elementary tree again.
is_parent_et_mut(t, p, ets0) == FALSE

\* is_parent_et of _del_et: every offspring of the parent p is in the list of
\* leaves ets0.
is_parent_et(t, p, ets0) ==
    \A i \in 1..Len(t.offspring[p]) : t.offspring[p][i] \in Range(ets0)

\* A _del_et that leaves the tree alone.
del_et_mut(t, node, leaf) == [t |-> t, ret |-> node]

\* Tree._del_et(node, leaf=leaf, update_gof=False); None when size == 1.
del_et(t, node, leaf) ==
    IF t.size = 1 THEN [t |-> t, ret |-> None]
    ELSE LET off == t.offspring[node]
             p == t.parent[node]
             ets0 == RemoveAll((IF Len(off) = 0 THEN Remove(t.ets[0], node)
                                ELSE t.ets[0]) \o <<node>>, off)
             parent_et == p # None /\ is_parent_et(t, p, ets0)
         IN  [t |->
                [t EXCEPT
                 !.nops = IF t.value[node] \in Ops
                          THEN [@ EXCEPT ![t.value[node]] = @ - 1] ELSE @,
                 !.value = [@ EXCEPT ![node] = leaf],
                 !.ets = [o \in op_orders |->
                     LET e1 == IF o = 0 THEN ets0
                               ELSE IF o = Len(off) THEN Remove(@[o], node)
                               ELSE @[o]
                     IN  IF parent_et /\ o = Len(t.offspring[p])
                         THEN e1 \o <<p>> ELSE e1],
                 !.nodes = RemoveAll(@, off),
                 !.size = @ - Len(off),
                 !.offspring = [@ EXCEPT ![node] = <<>>],
                 !.err = @ \/ t.value[node] \notin Ops
                           \/ node \notin Range(t.ets[Len(off)])
                           \/ ~(Range(off) \subseteq Range(t.ets[0]))
                           \/ ~(Range(off) \subseteq Range(t.nodes))],
              ret |-> node]

\* self._add_et(target, et=new) on the tree d that _del_et left.
AddAfterDel(d, target, new) ==
    IF d.t.err THEN d
    ELSE [t |-> add_et(d.t, target, new), ret |-> target]

\* if update_gof: self.sse = get_sse(); self.bic = get_bic(), on the tree
\* r the replacement left.
EtGof(r, update_gof, fo) ==
    [t |-> IF update_gof /\ ~r.t.err
           THEN get_bic(get_sse(r.t, TRUE, fo), TRUE, FALSE, fo).t
           ELSE r.t,
     ret |-> r.ret]

\* Tree.et_replace(target, new, update_gof): the tree and the node returned.
\* lf is the leaf _del_et draws when the replaced and the new elementary
\* tree both have offspring; _add_et then overwrites it.
et_replace(t, target, new, update_gof, fo, lf) ==
    LET oini == Len(t.offspring[target])
        ofin == Len(new[2])
    IN  EtGof(IF oini = 0
              THEN [t |-> add_et(t, target, new), ret |-> target]
              ELSE IF ofin = 0 THEN del_et(t, target, new[1])
              ELSE AddAfterDel(del_et(t, target, lf), target, new),
              update_gof, fo)


\* ------------------------------------------------------ energy changes
\* prior_par['Nopi_%s' % v] / PT inside try/except KeyError: 0 when absent.
PriorOrZero(v) ==
    IF NopiKey(v) \in DOMAIN prior_par
    THEN prior_par[NopiKey(v)] \div PT ELSE 0

\* Nothing is put back after a temporary move.
Restore_mut(t, old) == t

\* bic, sse and par_values put back after a temporary move.
Restore(t, old) ==
    [t EXCEPT !.bic = old.bic, !.sse = old.sse, !.par_values = old.par_values]

\* The offspring of the replaced elementary tree are forgotten.
OldEt_mut(t, target) == <<t.value[target], <<>> >>

\* old = [target.value, [o.value for o in target.offspring]]
OldEt(t, target) ==
    <<t.value[target],
      [i \in 1..Len(t.offspring[target]) |-> t.value[t.offspring[target][i]]]>>

\* The energy change read on the tree r1 that holds the new elementary
\* tree, and the tree once old is put back.
EtEnergy(t, d0, r1, old, fo, lf) ==
    [dE |-> XAdd(d0, XDiv(XSub(r1.t.bic, t.bic), 2 * t.BT)),
     pv |-> r1.t.par_values,
     t |-> Restore(et_replace(r1.t, r1.ret, old, FALSE, fo, lf).t, t)]

\* Tree.dE_et(target, new): the energy change, the parameter values of the
\* proposed tree and the tree the call leaves behind.
dE_et(t, target, new, fo, lf) ==
    LET d0 == PriorOrZero(new[1]) - PriorOrZero(t.value[target])
    IN  IF x_empty THEN [dE |-> d0, pv |-> t.par_values, t |-> t]
        ELSE EtEnergy(t, d0, et_replace(t, target, new, TRUE, fo, lf),
                      OldEt(t, target), fo, lf)

\* The energy change read on the BIC b of the tree with the new value, and
\* the tree once the old value is put back.
LrEnergy(t, d0, target, b) ==
    [dE |-> XAdd(d0, XDiv(XSub(b.ret, t.bic), 2 * t.BT)),
     pv |-> b.t.par_values,
     t |-> Restore([b.t EXCEPT !.value = [@ EXCEPT ![target] =
                                             t.value[target]]], t)]

\* Tree.dE_lr(target, new)
dE_lr(t, target, new, fo) ==
    LET d0 == PriorOrZero(new) - PriorOrZero(t.value[target])
    IN  IF x_empty THEN [dE |-> d0, pv |-> t.par_values, t |-> t]
        ELSE LrEnergy(t, d0, target,
                      get_bic([t EXCEPT !.value = [@ EXCEPT ![target] = new]],
                              TRUE, TRUE, fo))

\* The energy change read on the BIC b of the pruned tree, and the tree
\* once the root oldrr is put back.
PrunedEnergy(t, d0, b, oldrr, fo) ==
    [dE |-> XAdd(d0, XDiv(XSub(b.ret, t.bic), 2 * t.BT)),
     pv |-> b.t.par_values,
     t |-> Restore(replace_root(b.t, oldrr, FALSE, fo).t, t)]

\* The energy change read on the BIC b of the tree under its new root, and
\* the tree once that root is pruned.
RootedEnergy(t, d0, b, fo) ==
    [dE |-> XAdd(d0, XDiv(XSub(b.ret, t.bic), 2 * t.BT)),
     pv |-> b.t.par_values,
     t |-> Restore(prune_root(b.t, FALSE, fo).t, t)]

\* if newroot is None: return np.inf, on the result r1 of replace_root.
ReplacedEnergy(t, d0, r1, fo) ==
    IF r1.ret = None THEN [dE |-> PosInf, pv |-> t.par_values, t |-> t]
    ELSE RootedEnergy(t, d0, get_bic(r1.t, TRUE, TRUE, fo), fo)

\* Tree.dE_rr(rr): rr = None asks for the pruning of the root.  The prior
\* weight is read without a try block: a missing key raises KeyError.
dE_rr(t, rr, fo) ==
    IF rr = NoRR
    THEN IF ~is_root_prunable(t)
         THEN [dE |-> PosInf, pv |-> t.par_values, t |-> t]
         ELSE IF NopiKey(t.value[t.root]) \notin DOMAIN prior_par
         THEN [dE |-> 0, pv |-> t.par_values, t |-> [t EXCEPT !.err = TRUE]]
         ELSE LET d0 == 0 - (prior_par[NopiKey(t.value[t.root])] \div PT)
              IN  IF x_empty THEN [dE |-> d0, pv |-> t.par_values, t |-> t]
                  ELSE LET off == t.offspring[t.root]
                           oldrr == <<t.value[t.root],
                                      [i \in 1..(Len(off) - 1) |->
                                          t.value[off[i + 1]]]>>
                       IN  PrunedEnergy(t, d0,
                               get_bic(prune_root(t, FALSE, fo).t, TRUE, TRUE,
                                       fo),
                               oldrr, fo)
    ELSE IF NopiKey(rr[1]) \notin DOMAIN prior_par
         THEN [dE |-> 0, pv |-> t.par_values, t |-> [t EXCEPT !.err = TRUE]]
         ELSE LET d0 == prior_par[NopiKey(rr[1])] \div PT
              IN  IF x_empty THEN [dE |-> d0, pv |-> t.par_values, t |-> t]
                  ELSE ReplacedEnergy(t, d0, replace_root(t, rr, FALSE, fo),
                                      fo)

\* ------------------------------------------------- acceptance arithmetic
\* 1000 * exp(k), rounded, for k = 1..7.
Exp1000 == <<2718, 7389, 20086, 54598, 148413, 403429, 1096633>>

\* num * exp(-d) < den for positive integers num, den below 2000.
ExpLess(num, den, d) ==
    IF d = 0 THEN num < den
    ELSE IF d > 0
    THEN (IF d > Len(Exp1000) THEN TRUE ELSE 1000 * num < den * Exp1000[d])
    ELSE (IF 0 - d > Len(Exp1000) THEN FALSE
          ELSE num * Exp1000[0 - d] < 1000 * den)

\* Whether dice < paccept can be true, and whether it can be false, for
\* paccept = (num / den) * exp(-dE) and dice = random() in [0, 1).  num is
\* positive; a den of 0 divides a numpy float: inf, or nan for exp(-dE) = 0.
CanAccept(num, den, dE) == dE # PosInf /\ dE # NaN
CanReject(num, den, dE) ==
    IF dE \in {PosInf, NaN} THEN TRUE
    ELSE IF dE = NegInf \/ den = 0 THEN FALSE
    ELSE ExpLess(num, den, dE)

Decide(acc, num, den, dE) ==
    IF acc THEN CanAccept(num, den, dE) ELSE CanReject(num, den, dE)

\* The calls of curve_fit the commit of an accepted move makes on the moved
\* tree t: those of the move itself, which refits when it is made with
\* update_gof, and those of get_bic(reset=True, fit=False).
CommitFits(t, update_gof) ==
    (IF update_gof /\ ~t.err THEN FitterCalls(t, TRUE) ELSE 0)
    + FitterCalls(t, FALSE)

\* par_values = par_valuesNew; get_bic(reset=True, fit=False); E += dE
CommitGof(t, d, fo) ==
    LET t1 == get_bic([t EXCEPT !.par_values = d.pv], TRUE, FALSE, fo).t
    IN  [t1 EXCEPT !.E = XAdd(@, d.dE)]

\* The step that accepts the move to the moved tree m.
Accepted(m, d, fo, update_gof) ==
    [t |-> CommitGof(m, d, fo), res |-> "accept",
     fits |-> CommitFits(m, update_gof)]

\* -------------------------------------------------------------- mcmc_step
\* The root channel, pruning: the tree after the step and what happened.
step_prune(d, fo, acc) ==
        IF d.t.err THEN [t |-> d.t, res |-> "raise", fits |-> 0]
        ELSE IF acc
        THEN Accepted(prune_root(d.t, FALSE, fo).t, d, fo, FALSE)
        ELSE [t |-> d.t, res |-> "reject", fits |-> 0]

\* The root channel, replacement by newrr.
step_replace(d, newrr, fo, acc) ==
        IF d.t.err THEN [t |-> d.t, res |-> "raise", fits |-> 0]
        ELSE IF acc
        THEN Accepted(replace_root(d.t, newrr, FALSE, fo).t, d, fo, FALSE)
        ELSE [t |-> d.t, res |-> "reject", fits |-> 0]

\* The long-range channel.
step_lr(d, target, new, fo, acc) ==
    LET t1 == [d.t EXCEPT
                 !.nops = IF d.t.offspring[target] # <<>>
                          THEN [[@ EXCEPT ![d.t.value[target]] = @ - 1]
                                   EXCEPT ![new] = @ + 1]
                          ELSE @,
                 !.value = [@ EXCEPT ![target] = new]]
    IN  IF acc THEN Accepted(t1, d, fo, FALSE)
        ELSE [t |-> d.t, res |-> "reject", fits |-> 0]

\* A move type is taken for feasible whatever size it leads to.
Feasible_mut(t, mt) == Len(t.ets[mt[1]]) > 0

\* The feasible move types of the elementary-tree channel.
Feasible(t, mt) ==
    Len(t.ets[mt[1]]) > 0 /\ t.size - mt[1] + mt[2] <= max_size

B2I(b) == IF b THEN 1 ELSE 0

RECURSIVE CountTypes(_, _)
\* sum([int(b) for b in bs[:i]]), bs holding one test per move type
CountTypes(bs, i) ==
    IF i = 0 THEN 0
    ELSE CountTypes(bs, i - 1) + B2I(bs[i])

\* The parent of a leaf that becomes an operator is not looked at.
omegaf_mut(t, oini, ofin, target) ==
    Len(t.ets[ofin]) + 1 - (IF ofin = 0 THEN oini ELSE 0)

\* omegaf: len(ets[ofin]) + 1, less oini when ofin == 0, less 1 when
\* oini == 0 and target.parent is in ets[ofin].
omegaf(t, oini, ofin, target) ==
    Len(t.ets[ofin]) + 1
    - (IF ofin = 0 THEN oini ELSE 0)
    - (IF oini = 0 /\ t.parent[target] \in Range(t.ets[ofin]) THEN 1 ELSE 0)

\* nif, nfi, omegai, omegaf, si, sf of the elementary-tree channel.
et_weights(t, oini, ofin, target) ==
    LET n == Len(move_types)
        Each(P(_, _)) ==
            [i \in 1..n |-> P(move_types[i][1], move_types[i][2])]
        In0(oi, of) == Len(t.ets[oi]) > 0 /\ t.size + of - oi <= max_size
        In1(oi, of) ==
            /\ oi # oini /\ oi # ofin
            /\ Len(t.ets[oi]) > 0
            /\ t.size + ofin - oini + of - oi <= max_size
        In2(oi, of) ==
            /\ oi = oini
            /\ (oi = 0 \/ Len(t.ets[oi]) > 1)
            /\ t.size + ofin - oini + of - oi <= max_size
        In3(oi, of) ==
            /\ oi = ofin
            /\ t.size + ofin - oini + of - oi <= max_size
    IN  [nif |-> CountTypes(Each(In0), n),
         nfi |-> CountTypes(Each(In1), n)
                 + CountTypes(Each(In2), n)
                 + CountTypes(Each(In3), n),
         omegai |-> Len(t.ets[oini]),
         omegaf |-> omegaf(t, oini, ofin, target),
         si |-> Len(et_space[oini]),
         sf |-> Len(et_space[ofin])]

\* The elementary-tree channel for a drawn move type, target and new.
step_et(d, target, new, fo, lf, acc) ==
        IF acc
        THEN Accepted(et_replace(d.t, target, new, TRUE, fo, lf).t, d, fo,
                      TRUE)
        ELSE [t |-> d.t, res |-> "reject", fits |-> 0]

\* ------------------------------------------------------------ transitions
PriorCustom ==
    [k \in {NopiKey("pow2"), NopiKey("+")} |->
        IF k.op = "pow2" THEN 1 ELSE 2]
PriorDefault == [k \in {BareKey(op) : op \in Ops} |-> 5]

Abs(a) == IF a < 0 THEN 0 - a ELSE a

DriftOK(t) ==
    LET e == get_energy(t)
    IN  IsNum(t.E) /\ IsNum(e) => Abs(t.E - e) <= MaxDrift

\* last when the note of the call made before has been cleared.
NoCall ==
    [op |-> "", move |-> "", res |-> "", feasible |-> TRUE, fits |-> 0]

\* The variables take the tree's fields.  An exception that left a call
\* ends the run, and a call is made once the note of the one before it is
\* cleared.
Ready == ~raised /\ last = NoCall

Becomes(t0) ==
    \E t \in {Canonical(t0)} :
        /\ Ready
        /\ DriftOK(t)
        /\ root' = t.root
        /\ value' = t.value
        /\ offspring' = t.offspring
        /\ parent' = t.parent
        /\ nodes' = t.nodes
        /\ ets' = t.ets
        /\ size' = t.size
        /\ nops' = t.nops
        /\ par_values' = t.par_values
        /\ sse' = t.sse
        /\ bic' = t.bic
        /\ E' = t.E
        /\ BT' = t.BT
        /\ raised' = t.err

\* No call of mcmc or trace_predict is running.
NoRun == [fn |-> "", burnin |-> 0, thin |-> 0, samples |-> 0,
          verbose |-> FALSE]
Idle == UNCHANGED runVars

\* Tree.__init__
Construct ==
    /\ x_empty \in BOOLEAN
    /\ prior_par \in (IF x_empty THEN {PriorCustom, PriorDefault}
                      ELSE {PriorCustom})
    /\ et_space = build_et_space
    /\ rr_space = build_rr_space
    /\ num_rr = Len(build_rr_space)
    /\ \E v \in LeafValues, fo \in FitOutcomes :
         LET t == update_gof_all(
                 [root |-> 1,
                  value |-> [n \in NodeIds |-> IF n = 1 THEN v ELSE NoValue],
                  offspring |-> [n \in NodeIds |-> <<>>],
                  parent |-> [n \in NodeIds |-> None],
                  nodes |-> <<1>>,
                  ets |-> [o \in op_orders |-> IF o = 0 THEN <<1>> ELSE <<>>],
                  size |-> 1,
                  nops |-> [op \in Ops |-> 0],
                  par_values |-> [p \in Params |-> 1],
                  sse |-> 0, bic |-> 0, E |-> 0, BT |-> ColdBT,
                  err |-> FALSE], fo)
         IN  /\ root = t.root
             /\ value = t.value
             /\ offspring = t.offspring
             /\ parent = t.parent
             /\ nodes = t.nodes
             /\ ets = t.ets
             /\ size = t.size
             /\ nops = t.nops
             /\ par_values = t.par_values
             /\ sse = t.sse
             /\ bic = t.bic
             /\ E = t.E
             /\ BT = t.BT
    /\ raised = FALSE
    /\ last = [op |-> "init", move |-> "", res |-> "ok", feasible |-> TRUE,
               fits |-> 0]
    /\ pc = "idle"
    /\ run = NoRun
    /\ ii = 0 /\ ss = 0 /\ steps = 0 /\ nhot = 0 /\ ncold = 0
    /\ trace = <<>>
    /\ ypred = <<>>

\* A tree after construction, its lists kept up to their order.
Init == keep_order = FALSE /\ Construct

\* A tree after construction, the order of its lists kept.
InitOrdered == keep_order = TRUE /\ Construct

\* The leaves of the root replacement are used up by the call.
HandedRR_mut(rr) == <<rr[1], <<>> >>

\* The entry of rr_space handed to replace_root and dE_rr, as the calls leave
\* it: they read rr[0] and rr[1] and build oldrr and the pruned rr as new
\* lists, so they write neither.
HandedRR(rr) == rr

\* The entry of et_space handed to et_replace and dE_et, as the calls leave
\* it: _add_et reads et[0] and et[1], _del_et reads leaf, dE_et builds old as
\* a new list.
HandedEt(new) == new

\* The call was handed the i-th root replacement (the list itself, not a
\* copy); nothing else of the configuration is written.
UseRR(i) ==
    /\ rr_space' = [rr_space EXCEPT ![i] = HandedRR(@)]
    /\ UNCHANGED <<et_space, num_rr, prior_par, x_empty, keep_order>>

\* The call was handed the j-th elementary tree of order o.
UseEt(o, j) ==
    /\ et_space' = [et_space EXCEPT ![o][j] = HandedEt(@)]
    /\ UNCHANGED <<rr_space, num_rr, prior_par, x_empty, keep_order>>

\* The leaf _del_et draws from et_space[0] when et_replace deletes and then
\* adds: _add_et assigns node.value next, so every draw gives the same tree
\* and one draw stands for all.
LeafDraws == {LeafSeq[1]}

\* t.replace_root(rr), update_gof left at its default
ReplaceRoot ==
    /\ Ready
    /\ \E i \in 1..Len(rr_space), fo \in FitChoices :
        \E r \in {replace_root(Tree, rr_space[i], TRUE, fo)} :
            /\ Becomes(r.t)
            /\ last' = [op |-> "replace_root", move |-> "",
                        res |-> IF r.ret = None THEN "none" ELSE "ok",
                        feasible |-> r.ret # None, fits |-> 0]
            /\ UseRR(i)

\* t.prune_root(), update_gof left at its default
PruneRoot ==
    /\ Ready
    /\ \E fo \in FitChoices :
        \E r \in {prune_root(Tree, TRUE, fo)} :
            /\ Becomes(r.t)
            /\ last' = [op |-> "prune_root", move |-> "",
                        res |-> IF r.ret = NoRR THEN "none" ELSE "ok",
                        feasible |-> r.ret # NoRR, fits |-> 0]
            /\ UNCHANGED confVars

\* t.et_replace(target, new) on an elementary tree of the index, update_gof
\* left at its default.  A leaf is not replaced by a leaf, and the calls are
\* made while the result fits in max_size.
EtReplace ==
    /\ Ready
    /\ \E o \in op_orders, of \in op_orders :
      /\ o # 0 \/ of # 0
      /\ size - o + of <= max_size
      /\ \E k \in 1..Len(ets[o]), j \in 1..Len(et_space[of]),
            fo \in FitChoices, lf \in LeafDraws :
           \E r \in {et_replace(Tree, ets[o][k], et_space[of][j],
                                 TRUE, fo, lf)} :
               /\ Becomes(r.t)
               /\ last' = [op |-> "et_replace", move |-> "",
                           res |-> IF r.t.err THEN "raise"
                                   ELSE IF r.ret = None THEN "none" ELSE "ok",
                           feasible |-> TRUE, fits |-> 0]
               /\ UseEt(of, j)

Stepped(r0, move, feasible) ==
    \E r \in {r0} :
        /\ Becomes(r.t)
        /\ last' = [op |-> "mcmc_step", move |-> move, res |-> r.res,
                    feasible |-> feasible, fits |-> r.fits]

\* mcmc_step(), topDice < p_rr and the coin says prune.
McmcPrune ==
    /\ Ready
    /\ \E fo \in FitChoices :
        \E d \in {dE_rr(Tree, NoRR, fo)}, acc \in BOOLEAN :
              /\ d.t.err \/ Decide(acc, 1, num_rr, d.dE)
              /\ Stepped(step_prune(d, fo, acc), "prune",
                         is_root_prunable(Tree))
              /\ UNCHANGED confVars

\* mcmc_step(), topDice < p_rr and the coin says replace.
McmcReplace ==
    /\ Ready
    /\ \E i \in 1..Len(rr_space), fo \in FitChoices :
        \E d \in {dE_rr(Tree, rr_space[i], fo)}, acc \in BOOLEAN :
              /\ d.t.err \/ Decide(acc, num_rr, 1, d.dE)
              /\ Stepped(step_replace(d, rr_space[i], fo, acc), "replace",
                         size + OPS(rr_space[i][1]) <= max_size)
              /\ UseRR(i)

\* Any operator is drawn for a node that has offspring.
LrChoices_mut(t, target) ==
    IF t.offspring[target] = <<>> THEN LeafValues ELSE Ops

\* The values the long-range channel can draw for target: a variable or a
\* parameter for a leaf, else an operator of the arity of target's.
LrChoices(t, target) ==
    IF t.offspring[target] = <<>> THEN LeafValues
    ELSE {op \in Ops : OPS(op) = OPS(t.value[target])}

\* mcmc_step(), p_rr <= topDice < p_rr + p_long.
McmcLongRange ==
    /\ Ready
    /\ \E k \in 1..Len(nodes), fo \in FitChoices :
      \E new \in LrChoices(Tree, nodes[k]) :
        \E d \in {dE_lr(Tree, nodes[k], new, fo)}, acc \in BOOLEAN :
              /\ Decide(acc, 1, 1, d.dE)
              /\ Stepped(step_lr(d, nodes[k], new, fo, acc), "lr", TRUE)
              /\ UNCHANGED confVars

\* mcmc_step(), topDice >= p_rr + p_long.
McmcEt ==
    /\ Ready
    /\ \E m \in 1..Len(move_types) :
      /\ Feasible(Tree, move_types[m])
      /\ \E k \in 1..Len(ets[move_types[m][1]]),
            j \in 1..Len(et_space[move_types[m][2]]),
            fo \in FitChoices,
            lf \in LeafDraws :
           LET oini == move_types[m][1]
               ofin == move_types[m][2]
               target == ets[oini][k]
               new == et_space[ofin][j]
           IN  \E w \in {et_weights(Tree, oini, ofin, target)},
                  d \in {dE_et(Tree, target, new, fo, lf)},
                  acc \in BOOLEAN :
               /\ UseEt(ofin, j)
               /\ IF w.nfi = 0
                  THEN \* qfi = 1. / nfi raises ZeroDivisionError
                       acc /\ Stepped([t |-> [Tree EXCEPT !.err = TRUE],
                                       res |-> "raise", fits |-> 0],
                               "et", TRUE)
                  ELSE /\ Decide(acc, w.nif * w.omegai * w.sf,
                                 w.nfi * w.omegaf * w.si, d.dE)
                       /\ Stepped(step_et(d, target, new, fo, lf, acc),
                                  "et", TRUE)

McmcStep == McmcPrune \/ McmcReplace \/ McmcLongRange \/ McmcEt

\* The call has returned: its note is cleared, the program's state stays.
Forget ==
    /\ ~raised
    /\ last # NoCall
    /\ last' = NoCall
    /\ UNCHANGED <<treeVars, confVars, raised, runVars>>

\* t.mcmc_step() called on its own.
Step ==
    \/ McmcPrune /\ Idle
    \/ McmcReplace /\ Idle
    \/ McmcLongRange /\ Idle
    \/ McmcEt /\ Idle

Next ==
    \/ ReplaceRoot /\ Idle
    \/ PruneRoot /\ Idle
    \/ EtReplace /\ Idle
    \/ Step
    \/ Forget

Spec == Init /\ [][Next]_vars

\* A run of the sampler alone: construction, then mcmc_step calls.
NextMcmc == Step \/ Forget
SpecMcmc == Init /\ [][NextMcmc]_vars

\* The same run, the order of nodes and of the ets buckets kept.
SpecOrdered == InitOrdered /\ [][NextMcmc]_vars

\* ------------------------------------------------ mcmc and trace_predict
\* The marks of the progress bar: i % (burnin / 50), s % (samples / 50).
ProgressMarks == 50
\* range(thin / 4): the steps of a block made at the warm temperature.
WarmDiv == 4

\* The thin a run is started with; for trace_predict, one that thin / 4
\* rounds down to no step and one that gives a step.
ThinChoices(fn) ==
    IF fn = "mcmc" THEN 1..MaxThin ELSE {WarmDiv - 1, WarmDiv}

\* The call starts: nothing is written yet.
Start(fn) ==
    /\ pc = "idle"
    /\ ~raised
    /\ \E b \in 0..MaxBurnin, th \in ThinChoices(fn),
          n \in 0..(IF fn = "mcmc" THEN MaxSamples ELSE MaxBlocks),
          vb \in BOOLEAN :
         run' = [fn |-> fn, burnin |-> b, thin |-> th, samples |-> n,
                 verbose |-> vb]
    /\ pc' = "burnin"
    /\ ii' = 0 /\ ss' = 0 /\ steps' = 0 /\ nhot' = 0 /\ ncold' = 0
    /\ trace' = <<>>
    /\ ypred' = <<>>
    /\ UNCHANGED <<treeVars, confVars, raised, last>>

\* t.mcmc(burnin, thin, samples, verbose), write_files left at its default
StartMcmc == Start("mcmc")

\* t.trace_predict(x, burnin, thin, samples, verbose)
StartTracePredict == Start("trace_predict")

\* An exception leaves the call.
Raise ==
    /\ raised' = TRUE
    /\ UNCHANGED <<treeVars, confVars, last, runVars>>

\* The driver moves on to pc1 with loop variables i1 and s1.
Goto(pc1, i1, s1) ==
    /\ ~raised
    /\ pc' = pc1 /\ ii' = i1 /\ ss' = s1
    /\ UNCHANGED <<treeVars, confVars, raised, last, run, steps, nhot, ncold,
                   trace, ypred>>

\* The length of the loop the call is in: range(burnin), range(thin / 4)
\* or range(thin).
LoopLen ==
    IF pc = "burnin" THEN run.burnin
    ELSE IF pc = "hot" THEN run.thin \div WarmDiv
    ELSE run.thin

\* self.mcmc_step() in one of the loops of the call: the burn-in, the steps
\* at the warm temperature, the thin steps of a block.  The steps are counted
\* by the temperature they are made at.
RunStep ==
    /\ pc \in {"burnin", "hot", "thin"}
    /\ ii < LoopLen
    /\ McmcStep
    /\ steps' = steps + 1
    /\ nhot' = (IF BT = HotBT THEN nhot + 1 ELSE nhot)
    /\ ncold' = (IF BT = ColdBT THEN ncold + 1 ELSE ncold)
    /\ pc' = (IF pc = "burnin" THEN "burnin_tick" ELSE pc)
    /\ ii' = (IF pc = "burnin" THEN ii ELSE ii + 1)
    /\ UNCHANGED <<run, ss, trace, ypred>>

\* if verbose and (i % (burnin / 50) == 0): the integer division gives 0
\* for a burnin below 50, and i % 0 raises ZeroDivisionError.
BurninTick ==
    /\ pc = "burnin_tick"
    /\ IF run.verbose /\ run.burnin \div ProgressMarks = 0 THEN ~raised /\ Raise
       ELSE Goto("burnin", ii + 1, ss)

\* The burn-in loop ends (and the trace files are opened).
BurninDone ==
    /\ pc = "burnin" /\ ii = run.burnin
    /\ Goto("block", 0, 0)

\* self.BT = bt; self.get_energy(bic=True, reset=True)
SetBT(t, bt) ==
    LET t1 == get_bic([t EXCEPT !.BT = bt], TRUE, FALSE, NoFit).t
    IN  [t1 EXCEPT !.E = get_energy(t1)]

\* for s in range(samples), mcmc: the block of thin steps begins.
BlockStart ==
    /\ pc = "block" /\ run.fn = "mcmc" /\ ss < run.samples
    /\ ~raised
    /\ pc' = "thin" /\ ii' = 0 /\ nhot' = 0 /\ ncold' = 0
    /\ UNCHANGED <<treeVars, confVars, raised, last, run, ss, steps, trace,
                   ypred>>

\* for s in range(samples), trace_predict: self.BT = 1.e100 and E is reset.
WarmUp ==
    /\ Ready
    /\ pc = "block" /\ run.fn = "trace_predict" /\ ss < run.samples
    /\ Becomes(SetBT(Tree, HotBT))
    /\ pc' = "hot" /\ ii' = 0 /\ nhot' = 0 /\ ncold' = 0
    /\ UNCHANGED <<confVars, last, run, ss, steps, trace, ypred>>

\* self.BT = 1. and E is reset.
CoolDown ==
    /\ Ready
    /\ pc = "hot" /\ ii = run.thin \div WarmDiv
    /\ Becomes(SetBT(Tree, ColdBT))
    /\ pc' = "thin" /\ ii' = 0
    /\ UNCHANGED <<confVars, last, run, ss, steps, nhot, ncold, trace, ypred>>

\* The block of thin steps ends.
ThinDone ==
    /\ pc = "thin" /\ ii = run.thin
    /\ Goto(IF run.fn = "mcmc" THEN "tick" ELSE "predict", ii, ss)

\* What a trace record or a prediction is made of, and made at.
Record ==
    [s |-> ss, steps |-> steps, nhot |-> nhot, ncold |-> ncold, BT |-> BT,
     consistent |-> (E = get_energy(Tree))]

\* ypred[s] = self.predict(x): the expression is evaluated at x.
Predict ==
    /\ pc = "predict"
    /\ ~raised
    /\ IF ~Evaluable(Tree) THEN Raise
       ELSE /\ ypred' = Append(ypred, Record)
            /\ pc' = "tick"
            /\ UNCHANGED <<treeVars, confVars, raised, last, run, ii, ss,
                           steps, nhot, ncold, trace>>

\* if verbose and (s % (samples / 50) == 0)
SampleTick ==
    /\ pc = "tick"
    /\ IF run.verbose /\ run.samples \div ProgressMarks = 0 THEN ~raised /\ Raise
       ELSE Goto("emit", ii, ss)

\* json.dump([s, bic, E, get_energy(), str(self), par_values], tracef)
Emit ==
    /\ pc = "emit"
    /\ ~raised
    /\ trace' = Append(trace, Record)
    /\ pc' = "block" /\ ss' = ss + 1
    /\ UNCHANGED <<treeVars, confVars, raised, last, run, ii, steps, nhot,
                   ncold, ypred>>

\* The sampling loop ends and the call returns.
SamplesDone ==
    /\ pc = "block" /\ ss = run.samples
    /\ Goto("done", ii, ss)

\* The steps of a call of mcmc.
RunMcmc ==
    \/ StartMcmc
    \/ RunStep
    \/ BurninTick
    \/ BurninDone
    \/ BlockStart
    \/ ThinDone
    \/ SampleTick
    \/ Emit
    \/ SamplesDone
    \/ Forget

\* Construction, then one call of mcmc.
SpecRun == Init /\ [][RunMcmc]_vars

\* The steps of a call of trace_predict.
RunPredict ==
    \/ StartTracePredict
    \/ RunStep
    \/ BurninTick
    \/ BurninDone
    \/ WarmUp
    \/ CoolDown
    \/ ThinDone
    \/ Predict
    \/ SampleTick
    \/ Emit
    \/ SamplesDone
    \/ Forget

\* Construction, then one call of trace_predict.
SpecPredict == Init /\ [][RunPredict]_vars

\* ------------------------------------------------------------ properties
\* The nodes of the tree, its leaves, and the nodes that are elementary
\* trees of order o: exactly o offspring, all of them leaves.
TreeNodes == Below(Tree, root)
IsLeaf(n) == offspring[n] = <<>>
IsEt(n, o) ==
    /\ n \in TreeNodes
    /\ Len(offspring[n]) = o
    /\ \A i \in 1..Len(offspring[n]) : IsLeaf(offspring[n][i])

\* C1: in every state reached from construction by replace_root,
\* prune_root, et_replace and mcmc_step calls, a node is a member of ets[o]
\* if and only if it has exactly o offspring and all of them are leaves; in
\* particular ets[0] is exactly the set of the leaves of the tree.
C1_EtsIndex ==
    /\ \A o \in op_orders, n \in NodeIds : n \in Range(ets[o]) <=> IsEt(n, o)
    /\ Range(ets[0]) = {n \in TreeNodes : IsLeaf(n)}

\* An accepted elementary-tree step left a root that is no elementary tree
\* above an elementary tree of order 1 and a leaf.
C1_Witness ==
    /\ last.op = "mcmc_step" /\ last.move = "et" /\ last.res = "accept"
    /\ Len(offspring[root]) = 2
    /\ root \notin Range(ets[2])
    /\ Len(ets[1]) = 1
    /\ Len(ets[0]) = 2

\* C2: after every mcmc_step and every direct replace_root, prune_root or
\* et_replace, size is the number of nodes of the tree and the length of
\* nodes, and nops[op] counts the nodes of the tree whose value is op.
C2_Counters ==
    /\ size = Cardinality(TreeNodes)
    /\ size = Len(nodes)
    /\ \A op \in Ops :
         nops[op] = Cardinality({n \in TreeNodes : value[n] = op})

\* An accepted long-range step changed an operator of a tree of four nodes.
C2_Witness ==
    /\ last.op = "mcmc_step" /\ last.move = "lr" /\ last.res = "accept"
    /\ size = 4
    /\ nops["+"] = 1
    /\ nops["fac"] = 1

\* C3: from a fresh tree, under any sequence of mcmc_step calls,
\* 1 <= size <= max_size in every state.
C3_SizeBounds == 1 <= size /\ size <= max_size

\* With data, a step proposed a root replacement for a tree that is as
\* large as max_size allows, and rejected it.
C3_Witness ==
    /\ last.op = "mcmc_step" /\ last.move = "replace" /\ last.res = "reject"
    /\ ~last.feasible
    /\ ~x_empty
    /\ size = max_size

\* C4: a rejected mcmc_step, in any channel, with or without data, leaves
\* the printed form, nops, the contents of every ets bucket, size,
\* par_values, sse, bic and E as they were before the step.
C4_RejectFrame ==
    [][(last'.op = "mcmc_step" /\ last'.res = "reject") =>
          /\ Repr(Tree)' = Repr(Tree)
          /\ nops' = nops
          /\ ets' = ets
          /\ size' = size
          /\ par_values' = par_values
          /\ sse' = sse
          /\ bic' = bic
          /\ E' = E]_vars

\* With data, an elementary-tree step on a tree of three nodes or more was
\* rejected.
C4_Witness ==
    /\ last.op = "mcmc_step" /\ last.move = "et" /\ last.res = "reject"
    /\ ~x_empty
    /\ size >= 3

\* C5: after every mcmc_step of a run, accepted or rejected, the E kept by
\* E += dE equals get_energy() computed from bic, nops, prior_par, BT, PT.
C5_EnergyInStep == last.op = "mcmc_step" => E = get_energy(Tree)

\* C6: a step that proposes an infeasible root move (a replacement that
\* would exceed max_size, the pruning of a root that is not prunable) rejects
\* it and leaves the whole state, E included, unchanged, with and without
\* data.
C6_InfeasibleRootMove ==
    [][(/\ last'.op = "mcmc_step"
        /\ last'.move \in {"prune", "replace"}
        /\ ~last'.feasible) =>
          (last'.res = "reject" /\ UNCHANGED treeVars)]_vars

\* C7: for every reachable tree and every feasible elementary-tree move
\* oini -> ofin on a target, the reverse move ofin -> oini on the same node
\* is feasible in the tree after the move, and the weights agree: nif,
\* omegai and sf of the move, computed before it, are nfi, omegaf and si of
\* the reverse move computed after it, and the other way round.
C7_Reversible ==
    \A m \in 1..Len(move_types) :
      Feasible(Tree, move_types[m]) =>
        \A k \in 1..Len(ets[move_types[m][1]]),
           j \in 1..Len(et_space[move_types[m][2]]) :
          LET oini == move_types[m][1]
              ofin == move_types[m][2]
              target == ets[oini][k]
              w == et_weights(Tree, oini, ofin, target)
              post == et_replace(Tree, target, et_space[ofin][j], FALSE,
                                 NoFit, LeafSeq[1]).t
              v == et_weights(post, ofin, oini, target)
          IN  /\ Feasible(post, <<ofin, oini>>)
              /\ w.nif = v.nfi /\ w.omegai = v.omegaf /\ w.sf = v.si
              /\ w.nfi = v.nif /\ w.omegaf = v.omegai /\ w.si = v.sf

\* The same buckets: the same members, as many times.
SameMembers(s1, s2) == Range(s1) = Range(s2) /\ Len(s1) = Len(s2)

\* C8: for every reachable tree and every rr of rr_space with
\* size + arity(op) <= max_size, replace_root(rr) followed by prune_root()
\* returns rr and restores the tree: the same printed form, nops, size, and
\* the same members of nodes and of every ets bucket.
C8_ReplaceThenPrune ==
    \A i \in 1..Len(rr_space), gof \in BOOLEAN, fo \in FitChoices :
      size + OPS(rr_space[i][1]) <= max_size =>
        LET r1 == replace_root(Tree, rr_space[i], gof, fo)
            r2 == prune_root(r1.t, gof, fo)
        IN  /\ r1.ret # None
            /\ r2.ret = rr_space[i]
            /\ ~r2.t.err
            /\ Repr(r2.t) = Repr(Tree)
            /\ r2.t.nops = nops
            /\ r2.t.size = size
            /\ SameMembers(r2.t.nodes, nodes)
            /\ \A o \in op_orders : SameMembers(r2.t.ets[o], ets[o])

\* A direct replace_root put a binary root on an elementary tree of order
\* 1, and prune_root gives back the rr and the tree of two nodes.
C8_Witness ==
    /\ last.op = "replace_root" /\ last.res = "ok"
    /\ size = 4
    /\ value[root] = "+"
    /\ offspring[root][1] \in Range(ets[1])
    /\ LET r == prune_root(Tree, FALSE, NoFit)
       IN  r.ret = <<"+", <<value[offspring[root][2]]>> >> /\ r.t.size = 2

\* C9: for every reachable tree, every leaf and every elementary tree et of
\* order 1 or more, _add_et(node, et) followed by _del_et(node, leaf = the
\* old value) restores the tree: the same printed form, size, nops and
\* members of every ets bucket, the parent of node back in its bucket.
C9_AddThenDel ==
    \A n \in {l \in TreeNodes : IsLeaf(l)}, o \in op_orders \ {0} :
      \A j \in 1..Len(et_space[o]) :
        LET t1 == add_et(Tree, n, et_space[o][j])
            r == del_et(t1, n, value[n])
        IN  /\ ~t1.err /\ ~r.t.err
            /\ r.ret = n
            /\ Repr(r.t) = Repr(Tree)
            /\ r.t.size = size
            /\ r.t.nops = nops
            /\ \A o2 \in op_orders : SameMembers(r.t.ets[o2], ets[o2])

\* A direct et_replace added an elementary tree of order 2 under a root
\* that was an elementary tree of order 1; the root has left its bucket and
\* _del_et brings it back.
C9_Witness ==
    /\ last.op = "et_replace" /\ last.res = "ok"
    /\ size = 4
    /\ Len(offspring[root]) = 1
    /\ root \notin Range(ets[1])
    /\ offspring[root][1] \in Range(ets[2])
    /\ root \in Range(del_et(Tree, offspring[root][1], "x").t.ets[1])

\* C10: replace_root(rr) called when size + arity(op) > max_size, and
\* prune_root() called when is_root_prunable() is false, return None and
\* change nothing; is_root_prunable() is true exactly when size >= 2 and
\* every offspring of the root after the first is a leaf.
C10_InfeasibleDirect ==
    /\ \A i \in 1..Len(rr_space), gof \in BOOLEAN, fo \in FitChoices :
         size + OPS(rr_space[i][1]) > max_size =>
           LET r == replace_root(Tree, rr_space[i], gof, fo)
           IN  r.ret = None /\ r.t = Tree
    /\ \A gof \in BOOLEAN, fo \in FitChoices :
         ~is_root_prunable(Tree) =>
           LET r == prune_root(Tree, gof, fo)
           IN  r.ret = NoRR /\ r.t = Tree
    /\ is_root_prunable(Tree) <=>
         (/\ size >= 2
          /\ \A i \in 2..Len(offspring[root]) : IsLeaf(offspring[root][i]))

\* A direct prune_root was refused on a tree whose root has an offspring
\* after the first that is no leaf.
C10_Witness ==
    /\ last.op = "prune_root" /\ last.res = "none"
    /\ size >= 3
    /\ ~IsLeaf(offspring[root][2])
\* C11: in every state reached by moves and mcmc_step calls, every node of
\* the tree whose value is an operator has exactly arity(value) offspring, and
\* every node whose value is a variable or a parameter has none.
C11_Arity ==
    \A n \in TreeNodes :
        /\ value[n] \in Ops \cup LeafValues
        /\ value[n] \in Ops => Len(offspring[n]) = OPS(value[n])
        /\ value[n] \in LeafValues => offspring[n] = <<>>

\* An accepted long-range step on a tree that holds a binary operator above
\* a unary one.
C11_Witness ==
    /\ last.op = "mcmc_step" /\ last.move = "lr" /\ last.res = "accept"
    /\ value[root] = "+"
    /\ value[offspring[root][1]] = "fac"
    /\ size = 4

\* C12: in every state reached by moves and mcmc_step calls, each node in
\* the offspring list of p has parent p, every node but the root has a parent
\* whose offspring list holds it, the root has no parent, and the nodes
\* reached from the root are exactly the members of nodes.
C12_Links ==
    /\ parent[root] = None
    /\ \A p \in TreeNodes : \A i \in 1..Len(offspring[p]) :
           parent[offspring[p][i]] = p
    /\ \A n \in TreeNodes \ {root} :
           /\ parent[n] \in TreeNodes
           /\ n \in Range(offspring[parent[n]])
    /\ Range(nodes) = TreeNodes

\* A root was pruned and the root left behind has offspring of its own.
C12_Witness ==
    /\ last.op = "prune_root" /\ last.res = "ok"
    /\ size = 2
    /\ parent[offspring[root][1]] = root

\* The number of nodes of the tree that hold an operator.
NumOps == Cardinality({n \in TreeNodes : value[n] \in Ops})

\* C13: for a tree constructed with empty data, in every state a sequence
\* of mcmc_step calls reaches, sse = 0, bic = 0 and E is the prior energy, the
\* sum over the operators of prior_par['Nopi_<op>'] * nops[op] / PT.
C13_EmptyData ==
    x_empty =>
        /\ sse = 0
        /\ bic = 0
        /\ E = PriorSum(Tree, Len(OpSeq))

\* C14: a prior_par that lacks the entry 'Nopi_<op>' of an operator aborts
\* no energy computation: dE_rr, for the pruning of the root and for every
\* root replacement, returns without an exception, and the energy change it
\* returns without data counts 0 for the missing entry.
C14_MissingPriorKey ==
    \A fo \in FitChoices :
        /\ \A i \in 1..Len(rr_space) :
               LET d == dE_rr(Tree, rr_space[i], fo)
               IN  /\ ~d.t.err
                   /\ x_empty => d.dE = PriorOrZero(rr_space[i][1])
        /\ LET d == dE_rr(Tree, NoRR, fo)
           IN  /\ ~d.t.err
               /\ x_empty /\ is_root_prunable(Tree)
                      => d.dE = 0 - PriorOrZero(value[root])

\* C15: a tree constructed without a prior_par argument gives every
\* operator the prior weight 5: its prior energy is 5 * (number of operator
\* nodes) / PT.
C15_DefaultPrior ==
    prior_par = PriorDefault =>
        PriorSum(Tree, Len(OpSeq)) = (5 * NumOps) \div PT

\* C16: a call mcmc(burnin=B, thin=T, samples=S) is never left by an
\* exception; it writes no record during the burn-in, which is of B steps;
\* the record of sample k (0..S-1, in this order) is written when exactly
\* B + (k+1)*T steps have been made; and the call returns after B + S*T steps
\* with S records written.
C16_RunShape ==
    run.fn = "mcmc" =>
        /\ ~raised
        /\ pc \in {"burnin", "burnin_tick"} =>
               trace = <<>> /\ steps <= run.burnin
        /\ Len(trace) <= run.samples
        /\ \A k \in 1..Len(trace) :
               /\ trace[k].s = k - 1
               /\ trace[k].steps = run.burnin + k * run.thin
        /\ pc = "done" =>
               /\ steps = run.burnin + run.samples * run.thin
               /\ Len(trace) = run.samples

\* C17: in trace_predict, a prediction and a trace record are made after
\* thin/4 steps at the inflated BT followed by thin steps at BT = 1, in the
\* block they close, while BT = 1 and E equals get_energy().
C17_PredictBlocks ==
    run.fn = "trace_predict" =>
        \A r \in {ypred[k] : k \in 1..Len(ypred)}
                 \cup {trace[k] : k \in 1..Len(trace)} :
            /\ r.nhot = run.thin \div WarmDiv
            /\ r.ncold = run.thin
            /\ r.BT = ColdBT
            /\ r.consistent

\* C18: in the elementary-tree channel, for every feasible move type
\* (oini, ofin), target and new elementary tree, the nfi of the three sums is
\* the number of move types that are feasible once the swap is applied
\* (their ets bucket is not empty and the size they lead to fits).
C18_NfiPostSwap ==
    \A m \in 1..Len(move_types) :
        Feasible(Tree, move_types[m]) =>
            \A k \in 1..Len(ets[move_types[m][1]]),
               j \in 1..Len(et_space[move_types[m][2]]) :
                LET oini == move_types[m][1]
                    ofin == move_types[m][2]
                    target == ets[oini][k]
                    post == et_replace(Tree, target, et_space[ofin][j],
                                       FALSE, NoFit, LeafSeq[1]).t
                IN  et_weights(Tree, oini, ofin, target).nfi =
                        Cardinality({n \in 1..Len(move_types) :
                                        Feasible(post, move_types[n])})

\* C19: in the elementary-tree channel, for every feasible move type
\* (oini, ofin) and target in ets[oini], omegai is the length of ets[oini]
\* before the swap and omegaf is the length of ets[ofin] after it.
C19_Omega ==
    \A m \in 1..Len(move_types) :
        Feasible(Tree, move_types[m]) =>
            \A k \in 1..Len(ets[move_types[m][1]]),
               j \in 1..Len(et_space[move_types[m][2]]) :
                LET oini == move_types[m][1]
                    ofin == move_types[m][2]
                    target == ets[oini][k]
                    w == et_weights(Tree, oini, ofin, target)
                    post == et_replace(Tree, target, et_space[ofin][j],
                                       FALSE, NoFit, LeafSeq[1]).t
                IN  /\ ~post.err
                    /\ w.omegai = Len(ets[oini])
                    /\ w.omegaf = Len(post.ets[ofin])

\* An elementary-tree step left a leaf under an elementary tree of order
\* 1: the leaf can become one itself, and its parent then stops being one.
C19_Witness ==
    /\ last.op = "mcmc_step" /\ last.move = "et" /\ last.res = "accept"
    /\ size = 2
    /\ root \in Range(ets[1])
    /\ Feasible(Tree, <<0, 1>>)
    /\ et_weights(Tree, 0, 1, offspring[root][1]).omegaf = 1

\* The trees the energy-change computations leave behind, for every call
\* mcmc_step can make in the current state.
AfterDEAll ==
    UNION {
        {dE_et(Tree, ets[mt[1]][k], et_space[mt[2]][j], fo, LeafSeq[1]).t :
            k \in 1..Len(ets[mt[1]]), j \in 1..Len(et_space[mt[2]]),
            fo \in FitChoices} :
        mt \in {m \in Range(move_types) : Feasible(Tree, m)}}
    \cup UNION {
        {dE_lr(Tree, n, new, fo).t : new \in LrChoices(Tree, n),
                                     fo \in FitChoices} :
        n \in Range(nodes)}
    \cup {dE_rr(Tree, rr_space[i], fo).t :
            i \in 1..Len(rr_space), fo \in FitChoices}
    \cup {dE_rr(Tree, NoRR, fo).t : fo \in FitChoices}

\* The place of a node in the tree: the offspring indices from the root.
RECURSIVE PathOf(_, _)
PathOf(t, n) ==
    IF t.parent[n] = None THEN <<>>
    ELSE IF n \notin Range(t.offspring[t.parent[n]]) THEN <<0>>
    ELSE PathOf(t, t.parent[n])
         \o <<IndexOf(t.offspring[t.parent[n]], n)>>

\* The places of the nodes of a list, in the order of the list.
PlaceSeq(t, s) == [i \in 1..Len(s) |-> PathOf(t, s[i])]

\* The same nodes of the tree, in any order.
SamePlaces(t1, s1, t2, s2) ==
    /\ Len(s1) = Len(s2)
    /\ Range(PlaceSeq(t1, s1)) = Range(PlaceSeq(t2, s2))

C21_CommitNoFit ==
    (last.op = "mcmc_step" /\ last.res = "accept") => last.fits = 0

\* No parameter symbol appears in the printed expression.
ParameterFree(t) == Params \cap Atoms(t) = {}

\* C22: with data, get_sse with fitting on a tree in which no parameter
\* appears leaves par_values as it was, so an accepted step to a
\* parameter-free formula keeps the parameter values of the tree it left.
C22_KeepsParValues ==
    [][(/\ ~x_empty
        /\ last'.op = "mcmc_step" /\ last'.res = "accept"
        /\ ParameterFree(Tree)')
       => par_values' = par_values]_vars

\* C22, amended: with data, get_sse with fitting on a tree in which no
\* parameter appears sets every parameter value to 1, so an accepted step to
\* a parameter-free formula leaves every parameter value at 1.
C22_ResetsParValues ==
    (~x_empty /\ ParameterFree(Tree)) =>
        /\ \A fo \in FitOutcomes :
               get_sse(Tree, TRUE, fo).par_values = [p \in Params |-> 1]
        /\ (last.op = "mcmc_step" /\ last.res = "accept") =>
               par_values = [p \in Params |-> 1]

\* With data, a step to a parameter-free formula of two nodes or more was
\* accepted.
C22_Witness ==
    /\ ~x_empty
    /\ last.op = "mcmc_step" /\ last.res = "accept"
    /\ ParameterFree(Tree)
    /\ size >= 2
    /\ par_values = [p \in Params |-> 1]

\* C23: with data, a get_sse during which the fitter raises, or for a tree
\* whose expression cannot be evaluated, gives an sse of +infinity.
C23_FailureGivesInf ==
    ~x_empty =>
        \A fit \in BOOLEAN, fo \in FitOutcomes :
            (\/ FitterCalls(Tree, fit) = 1 /\ ~fo.ok
             \/ ~Evaluable(Tree))
            => get_sse(Tree, fit, fo).sse = PosInf

\* C24: an accepted long-range move changes the value of one node, to a leaf
\* symbol when the node is a leaf and else to an operator of the arity of its
\* old value, nops of the old and the new operator when the node has
\* offspring, and the goodness of fit (par_values, sse, bic, E); the root,
\* size, nodes, every offspring list, every parent link and every ets bucket
\* stay as they were.
C24_LongRangeFrame ==
    [][(last'.op = "mcmc_step" /\ last'.move = "lr" /\ last'.res = "accept")
       => /\ root' = root /\ size' = size /\ nodes' = nodes
          /\ offspring' = offspring /\ parent' = parent /\ ets' = ets
          /\ \E n \in Range(nodes) :
                /\ \A m \in NodeIds \ {n} : value'[m] = value[m]
                /\ IF offspring[n] = <<>>
                   THEN value'[n] \in LeafValues /\ nops' = nops
                   ELSE /\ value'[n] \in Ops
                        /\ OPS(value'[n]) = OPS(value[n])
                        /\ nops' = [[nops EXCEPT ![value[n]] = @ - 1]
                                        EXCEPT ![value'[n]] = @ + 1]]_vars

\* With data, a long-range move was accepted on a tree that holds the
\* operator pow2 and the operator +.
C24_Witness ==
    /\ ~x_empty
    /\ last.op = "mcmc_step" /\ last.move = "lr" /\ last.res = "accept"
    /\ nops["pow2"] = 1 /\ nops["+"] = 1

\* A replace_root was made and put a new root on the tree, called directly
\* or by an accepted step.
RootReplaced ==
    \/ last.op = "replace_root" /\ last.res = "ok"
    \/ /\ last.op = "mcmc_step" /\ last.move = "replace"
       /\ last.res = "accept" /\ last.feasible

\* C25: after a successful replace_root the previous root, the first
\* offspring of the new one, is in no ets bucket it belonged to as an
\* elementary tree.
C25_OldRootLeavesEts ==
    RootReplaced =>
        \A o \in op_orders :
            IsEt(offspring[root][1], o) =>
                offspring[root][1] \notin Range(ets[o])

\* C25, amended: after a successful replace_root the previous root is still
\* an elementary tree if it was one, and still in the ets bucket of its
\* order.
C25_OldRootStaysInEts ==
    RootReplaced =>
        \A o \in op_orders :
            IsEt(offspring[root][1], o) =>
                offspring[root][1] \in Range(ets[o])

\* A root was put on a tree whose root was an elementary tree with offspring.
C25_Witness ==
    /\ RootReplaced
    /\ \E o \in op_orders \ {0} : IsEt(offspring[root][1], o)

LeafTuples(k) == [1..k -> LeafValues]
NoRepeat(s) == \A i, j \in 1..Len(s) : s[i] = s[j] => i = j

RECURSIVE Power(_, _)
Power(b, k) == IF k = 0 THEN 1 ELSE b * Power(b, k - 1)

\* C27: with L leaf symbols, et_space[0] has L entries; et_space[k], k >= 1,
\* has one entry per operator of arity k and k-tuple of leaf symbols, that is
\* (number of operators of arity k) * L^k entries without a repeat; rr_space
\* has one entry per operator of arity k and (k-1)-tuple of leaf symbols,
\* which for a unary operator is the one entry with the empty list.
C27_SpaceCounts ==
    /\ Len(et_space[0]) = Len(LeafSeq)
    /\ \A k \in op_orders \ {0} :
          /\ Len(et_space[k])
               = Cardinality({op \in Ops : OPS(op) = k})
                 * Power(Len(LeafSeq), k)
          /\ NoRepeat(et_space[k])
          /\ Range(et_space[k])
               = {<<op, vs>> : op \in {q \in Ops : OPS(q) = k},
                               vs \in LeafTuples(k)}
    /\ NoRepeat(rr_space)
    /\ Range(rr_space)
         = UNION {{<<op, vs>> : vs \in LeafTuples(OPS(op) - 1)} : op \in Ops}
    /\ \A op \in {q \in Ops : OPS(q) = 1} :
          Cardinality({i \in 1..Len(rr_space) : rr_space[i][1] = op}) = 1

\* The tree as the constructor leaves it, with its spaces built: four
\* elementary trees of each order above 0 and four root replacements.
C27_Witness ==
    /\ last.op = "init"
    /\ Len(et_space[1]) = 4 /\ Len(et_space[2]) = 4
    /\ Len(rr_space) = 4

\* The elementary-tree moves mcmc_step can propose in the state: a feasible
\* move type and a target from the bucket of its first order.
EtProposals ==
    UNION {{<<mt, target>> : target \in Range(ets[mt[1]])} :
           mt \in {m \in Range(move_types) : Feasible(Tree, m)}}

RECURSIVE NopsSum(_, _)
\* The sum over the first i operators op of nops[op] * (arity(op) - less).
NopsSum(i, less) ==
    IF i = 0 THEN 0
    ELSE NopsSum(i - 1, less) + nops[OpSeq[i]] * (OPS(OpSeq[i]) - less)

\* C29: in every state reached by moves and mcmc_step calls, size is 1 plus
\* the sum over the operators of nops[op] * arity(op), and the number of
\* leaves |ets[0]| is 1 plus the sum of nops[op] * (arity(op) - 1).
C29_SizeFromNops ==
    /\ size = 1 + NopsSum(Len(OpSeq), 0)
    /\ Len(ets[0]) = 1 + NopsSum(Len(OpSeq), 1)

\* A tree of four nodes with a unary and a binary operator, left by an
\* accepted step.
C29_Witness ==
    /\ last.op = "mcmc_step" /\ last.res = "accept"
    /\ size = 4
    /\ nops["+"] = 1
    /\ nops["pow2"] + nops["fac"] = 1

\* C30: in every state reached by moves and mcmc_step calls, no node occurs
\* twice in nodes, and every node occurs in at most one ets bucket and at
\* most once in it.
C30_NoDuplicates ==
    /\ NoRepeat(nodes)
    /\ \A o \in op_orders : NoRepeat(ets[o])
    /\ \A o1, o2 \in op_orders :
          o1 # o2 => Range(ets[o1]) \cap Range(ets[o2]) = {}

\* An accepted elementary-tree step left a tree of three nodes or more whose
\* root is an elementary tree: ets[0] and a bucket of a higher order both
\* hold nodes.
C30_Witness ==
    /\ last.op = "mcmc_step" /\ last.move = "et" /\ last.res = "accept"
    /\ size >= 3
    /\ ets[0] # <<>>
    /\ \E o \in op_orders \ {0} : root \in Range(ets[o])

====
